---- MODULE Spec2Model ----
(***************************************************************************)
(* medtracker: a REST service over three records, Medication, DoseLog and  *)
(* Note, with an adherence calculator attached to Medication.              *)
(*                                                                         *)
(* The store (the three tables and their id sequences) and the last HTTP   *)
(* response are the state.  Every viewset handler is one action: request   *)
(* validation by the serializer, the write, and the response.              *)
(***************************************************************************)
EXTENDS Integers, Sequences, FiniteSets, TLC

VARIABLES
    medications,       \* id -> [name, dosage_mg, prescribed_per_day]
    doselogs,          \* id -> [medication, taken_at, was_taken]
    notes,             \* id -> [medication, text, date]
    nextMedicationId,  \* next value of the Medication id sequence
    nextDoseLogId,     \* next value of the DoseLog id sequence
    nextNoteId,        \* next value of the Note id sequence
    request,           \* the last query request, [pk, query]
    response,          \* the last response sent, [op, status, data]
    returned           \* the outcome of the last direct call of a model method

vars == <<medications, doselogs, notes,
          nextMedicationId, nextDoseLogId, nextNoteId, request, response, returned>>

store == <<medications, doselogs, notes,
           nextMedicationId, nextDoseLogId, nextNoteId>>

----------------------------------------------------------------------------
(* Bounds of the model *)

MaxMedications == 2     \* Medication ids handed out in a run
MaxDoseLogs == 1        \* DoseLog ids handed out in a run of the full store
MaxLogWrites == 2       \* DoseLog ids handed out in a run of the dose-log resource
MaxNotes == 1           \* Note ids handed out in a run of the full store
MaxTakenPerDay == 2     \* taken doses logged on one day for the calculator
MaxDay == 2             \* calendar days 0..MaxDay
MaxPerDay == 2          \* prescribed_per_day of the medication a query reads
MaxParamLen == 3        \* characters of the `days` query parameter
TicksPerDay == 2        \* instants per calendar day

(* Program constants *)

MaxNoteLen == 1000      \* NoteSerializer.validate_text

HTTP_200_OK == 200
HTTP_201_CREATED == 201
HTTP_204_NO_CONTENT == 204
HTTP_400_BAD_REQUEST == 400
HTTP_404_NOT_FOUND == 404
HTTP_405_METHOD_NOT_ALLOWED == 405
HTTP_502_BAD_GATEWAY == 502

----------------------------------------------------------------------------
(* Values *)

\* A request field is absent, present but unusable, or present with a value.
Absent == <<"absent">>
Invalid == <<"invalid">>
Value(v) == <<"value", v>>
IsValue(f) == f[1] = "value"
Val(f) == f[2]

\* Instants (a DateTimeField in UTC) and the calendar date of an instant.
Times == 0 .. ((MaxDay + 1) * TicksPerDay - 1)
Days == 0 .. MaxDay
DateOf(t) == t \div TicksPerDay

\* A text is kept by its shape: `lead` whitespace characters, then `body`
\* characters from the first to the last non-whitespace one, then `trail`
\* whitespace characters.  A text of whitespace only has body = 0, trail = 0.
Text(l, b, t) == [lead |-> l, body |-> b, trail |-> t]
TextLen(s) == s.lead + s.body + s.trail
\* str.strip()
Strip(s) == Text(0, s.body, 0)
EmptyText == Text(0, 0, 0)

EmptyTable == [i \in {} |-> 0]
Without(table, pk) == [i \in DOMAIN table \ {pk} |-> table[i]]
With(table, pk, row) == [i \in DOMAIN table \cup {pk} |-> IF i = pk THEN row ELSE table[i]]

Request(pk, query) == [pk |-> pk, query |-> query]
Response(op, status, data) == [op |-> op, status |-> status, data |-> data]
NoData == <<>>

----------------------------------------------------------------------------
(* Medication resource: MedicationViewSet (a ModelViewSet) *)

\* The Medication fields as the serializer accepts them.
MedicationPayloadValid(p) ==
    /\ p.name # ""
    /\ p.dosage_mg >= 0
    /\ p.prescribed_per_day >= 0

\* POST /api/medications/
CreateMedication(p) ==
    /\ nextMedicationId <= MaxMedications
    /\ IF MedicationPayloadValid(p)
       THEN /\ medications' = With(medications, nextMedicationId, p)
            /\ nextMedicationId' = nextMedicationId + 1
            /\ response' = Response("CreateMedication", HTTP_201_CREATED, NoData)
       ELSE /\ response' = Response("CreateMedication", HTTP_400_BAD_REQUEST, NoData)
            /\ UNCHANGED <<medications, nextMedicationId>>
    /\ UNCHANGED <<doselogs, notes, nextDoseLogId, nextNoteId, request, returned>>

\* PUT /api/medications/<pk>/
UpdateMedication(pk, p) ==
    /\ IF pk \notin DOMAIN medications
       THEN /\ response' = Response("UpdateMedication", HTTP_404_NOT_FOUND, NoData)
            /\ UNCHANGED medications
       ELSE IF MedicationPayloadValid(p)
       THEN /\ medications' = With(medications, pk, p)
            /\ response' = Response("UpdateMedication", HTTP_200_OK, NoData)
       ELSE /\ response' = Response("UpdateMedication", HTTP_400_BAD_REQUEST, NoData)
            /\ UNCHANGED medications
    /\ UNCHANGED <<doselogs, notes, nextMedicationId, nextDoseLogId, nextNoteId, request, returned>>

\* on_delete=CASCADE of the two foreign keys to Medication: the rows that go
\* with Medication pk.
Cascade(table, pk) == [i \in {j \in DOMAIN table : table[j].medication # pk} |-> table[i]]

\* A destroy that does not look the Medication up first.
DestroyMedicationNoLookup(pk) ==
    /\ medications' = Without(medications, pk)
    /\ doselogs' = Cascade(doselogs, pk)
    /\ notes' = Cascade(notes, pk)
    /\ response' = Response("DestroyMedication", HTTP_204_NO_CONTENT, NoData)
    /\ UNCHANGED <<nextMedicationId, nextDoseLogId, nextNoteId, request, returned>>

\* DELETE /api/medications/<pk>/
DestroyMedication(pk) ==
    /\ IF pk \notin DOMAIN medications
       THEN /\ response' = Response("DestroyMedication", HTTP_404_NOT_FOUND, NoData)
            /\ UNCHANGED <<medications, doselogs, notes>>
       ELSE /\ medications' = Without(medications, pk)
            /\ doselogs' = Cascade(doselogs, pk)
            /\ notes' = Cascade(notes, pk)
            /\ response' = Response("DestroyMedication", HTTP_204_NO_CONTENT, NoData)
    /\ UNCHANGED <<nextMedicationId, nextDoseLogId, nextNoteId, request, returned>>

----------------------------------------------------------------------------
(* DoseLog resource: DoseLogViewSet (a ModelViewSet) with DoseLogSerializer *)

\* A medication field that takes any id given, stored or not.
MedicationFieldAnyId(f) == IsValue(f)

\* `medication` is a primary-key field over Medication.objects.all():
\* the id has to be given and has to be the id of a stored Medication.
MedicationFieldValid(f) == IsValue(f) /\ Val(f) \in DOMAIN medications

\* `taken_at` is a required DateTimeField.
TakenAtFieldValid(f) == IsValue(f)

DoseLogPayloadValid(p) ==
    /\ MedicationFieldValid(p.medication)
    /\ TakenAtFieldValid(p.taken_at)

DoseLogRow(p) ==
    [medication |-> Val(p.medication), taken_at |-> Val(p.taken_at),
     was_taken |-> p.was_taken]

\* POST /api/logs/
CreateDoseLog(p) ==
    /\ nextDoseLogId <= MaxLogWrites
    /\ IF DoseLogPayloadValid(p)
       THEN /\ doselogs' = With(doselogs, nextDoseLogId, DoseLogRow(p))
            /\ nextDoseLogId' = nextDoseLogId + 1
            /\ response' = Response("CreateDoseLog", HTTP_201_CREATED, NoData)
       ELSE /\ response' = Response("CreateDoseLog", HTTP_400_BAD_REQUEST, NoData)
            /\ UNCHANGED <<doselogs, nextDoseLogId>>
    /\ UNCHANGED <<medications, notes, nextMedicationId, nextNoteId, request, returned>>

\* PUT /api/logs/<pk>/
UpdateDoseLog(pk, p) ==
    /\ IF pk \notin DOMAIN doselogs
       THEN /\ response' = Response("UpdateDoseLog", HTTP_404_NOT_FOUND, NoData)
            /\ UNCHANGED doselogs
       ELSE IF DoseLogPayloadValid(p)
       THEN /\ doselogs' = With(doselogs, pk, DoseLogRow(p))
            /\ response' = Response("UpdateDoseLog", HTTP_200_OK, NoData)
       ELSE /\ response' = Response("UpdateDoseLog", HTTP_400_BAD_REQUEST, NoData)
            /\ UNCHANGED doselogs
    /\ UNCHANGED <<medications, notes, nextMedicationId, nextDoseLogId, nextNoteId, request, returned>>

\* DELETE /api/logs/<pk>/
DestroyDoseLog(pk) ==
    /\ IF pk \notin DOMAIN doselogs
       THEN /\ response' = Response("DestroyDoseLog", HTTP_404_NOT_FOUND, NoData)
            /\ UNCHANGED doselogs
       ELSE /\ doselogs' = Without(doselogs, pk)
            /\ response' = Response("DestroyDoseLog", HTTP_204_NO_CONTENT, NoData)
    /\ UNCHANGED <<medications, notes, nextMedicationId, nextDoseLogId, nextNoteId, request, returned>>

----------------------------------------------------------------------------
(* Note resource: NoteViewSet with NoteSerializer *)

\* A medication_id field that takes any id without looking it up.
MedicationIdFieldUnchecked(f) == IsValue(f)

\* `medication_id` is a PrimaryKeyRelatedField over Medication.objects.all().
MedicationIdFieldValid(f) == IsValue(f) /\ Val(f) \in DOMAIN medications

\* A text field that keeps the surrounding whitespace.
TextNotTrimmed(s) == s

\* The serializer's `text` field before validate_text runs: a required
\* character field that refuses a blank value and hands on the value with
\* its surrounding whitespace removed.
TextToInternalValue(s) == Strip(s)
TextFieldValid(f) == IsValue(f) /\ Strip(Val(f)) # EmptyText

\* NoteSerializer.validate_text(value): TRUE when it raises.
ValidateTextRaises(value) ==
    \/ value = EmptyText \/ Strip(value) = EmptyText
    \/ TextLen(value) > MaxNoteLen

\* NoteSerializer.validate_text(value): the value it returns.
ValidateText(value) == Strip(value)

NotePayloadValid(p) ==
    /\ MedicationIdFieldValid(p.medication_id)
    /\ TextFieldValid(p.text)
    /\ ~ValidateTextRaises(TextToInternalValue(Val(p.text)))

\* POST /api/notes/ ; `now` is the clock read by the auto-assigned date.
CreateNote(p, now) ==
    /\ nextNoteId <= MaxNotes
    /\ IF NotePayloadValid(p)
       THEN /\ notes' = With(notes, nextNoteId,
                    [medication |-> Val(p.medication_id),
                     text |-> ValidateText(TextToInternalValue(Val(p.text))),
                     date |-> now])
            /\ nextNoteId' = nextNoteId + 1
            /\ response' = Response("CreateNote", HTTP_201_CREATED, NoData)
       ELSE /\ response' = Response("CreateNote", HTTP_400_BAD_REQUEST, NoData)
            /\ UNCHANGED <<notes, nextNoteId>>
    /\ UNCHANGED <<medications, doselogs, nextMedicationId, nextDoseLogId, request, returned>>

\* The update a ModelViewSet has when it is not overridden.
UpdateNoteInherited(pk, p) ==
    /\ IF pk \notin DOMAIN notes
       THEN /\ response' = Response("UpdateNote", HTTP_404_NOT_FOUND, NoData)
            /\ UNCHANGED notes
       ELSE IF IsValue(p.medication_id) /\ Val(p.medication_id) \in DOMAIN medications
               /\ IsValue(p.text) /\ Strip(Val(p.text)) # EmptyText
       THEN /\ notes' = With(notes, pk, [medication |-> Val(p.medication_id),
                                         text |-> Strip(Val(p.text)),
                                         date |-> notes[pk].date])
            /\ response' = Response("UpdateNote", HTTP_200_OK, NoData)
       ELSE /\ response' = Response("UpdateNote", HTTP_400_BAD_REQUEST, NoData)
            /\ UNCHANGED notes
    /\ UNCHANGED <<medications, doselogs, nextMedicationId, nextDoseLogId, nextNoteId, request, returned>>

\* PUT /api/notes/<pk>/ : NoteViewSet.update
UpdateNote(pk, p) ==
    /\ response' = Response("UpdateNote", HTTP_405_METHOD_NOT_ALLOWED, NoData)
    /\ UNCHANGED <<store, request, returned>>

\* PATCH /api/notes/<pk>/ : NoteViewSet.partial_update
PartialUpdateNote(pk, p) ==
    /\ response' = Response("PartialUpdateNote", HTTP_405_METHOD_NOT_ALLOWED, NoData)
    /\ UNCHANGED <<store, request, returned>>

\* DELETE /api/notes/<pk>/
DestroyNote(pk) ==
    /\ IF pk \notin DOMAIN notes
       THEN /\ response' = Response("DestroyNote", HTTP_404_NOT_FOUND, NoData)
            /\ UNCHANGED notes
       ELSE /\ notes' = Without(notes, pk)
            /\ response' = Response("DestroyNote", HTTP_204_NO_CONTENT, NoData)
    /\ UNCHANGED <<medications, doselogs, nextMedicationId, nextDoseLogId, nextNoteId, request, returned>>

----------------------------------------------------------------------------
(* Requests *)

MedicationIds == 1 .. (MaxMedications + 1)
DoseLogIds == 1 .. (MaxDoseLogs + 1)
NoteIds == 1 .. (MaxNotes + 1)

MedicationPayloads ==
    {[name |-> "Aspirin", dosage_mg |-> 100, prescribed_per_day |-> 2],
     [name |-> "Aspirin", dosage_mg |-> 100, prescribed_per_day |-> 0],
     [name |-> "", dosage_mg |-> -10, prescribed_per_day |-> 0]}

MedicationRefs == {Absent} \cup {Value(m) : m \in MedicationIds}

DoseLogPayloads(times) ==
    [medication : MedicationRefs, taken_at : {Value(t) : t \in times}, was_taken : BOOLEAN]
        \cup [medication : MedicationRefs, taken_at : {Absent, Invalid}, was_taken : {TRUE}]

NoteTexts ==
    {Text(0, 1, 0), Text(1, 1, 1),
     Text(0, MaxNoteLen, 0), Text(1, MaxNoteLen, 0), Text(0, MaxNoteLen, 1),
     Text(0, MaxNoteLen + 1, 0), Text(1, MaxNoteLen + 1, 1),
     Text(0, 0, 0), Text(1, 0, 0), Text(MaxNoteLen + 1, 0, 0)}

\* The few texts the full store is run with.
FewNoteTexts == {Text(1, 0, 0), Text(1, 1, 1)}

\* The instants at which the notes resource reads the clock.
NoteClock == {0, TicksPerDay}

NotePayloads(texts) ==
    [medication_id : MedicationRefs, text : {Absent} \cup {Value(s) : s \in texts}]

\* The payloads of the test of PUT and PATCH on a Note: a text alone, and a
\* whole Note.
NoteUpdatePayloads ==
    {[medication_id |-> Absent, text |-> Value(Text(0, MaxNoteLen, 0))],
     [medication_id |-> Value(1), text |-> Value(Text(0, MaxNoteLen - 1, 0))]}

----------------------------------------------------------------------------
(* The service: every request against the full store *)

Init ==
    /\ medications = EmptyTable
    /\ doselogs = EmptyTable
    /\ notes = EmptyTable
    /\ nextMedicationId = 1
    /\ nextDoseLogId = 1
    /\ nextNoteId = 1
    /\ request = NoData
    /\ response = Response("none", 0, NoData)
    /\ returned = NoData

MedicationRequests ==
    \/ \E p \in MedicationPayloads : CreateMedication(p)
    \/ \E pk \in MedicationIds, p \in MedicationPayloads : UpdateMedication(pk, p)
    \/ \E pk \in MedicationIds : DestroyMedication(pk)

Next ==
    \/ MedicationRequests
    \/ \E p \in DoseLogPayloads({0}) : nextDoseLogId <= MaxDoseLogs /\ CreateDoseLog(p)
    \/ \E pk \in DoseLogIds, p \in DoseLogPayloads({0}) : UpdateDoseLog(pk, p)
    \/ \E pk \in DoseLogIds : DestroyDoseLog(pk)
    \/ \E p \in NotePayloads(FewNoteTexts) : CreateNote(p, 0)
    \/ \E pk \in NoteIds, p \in NoteUpdatePayloads : UpdateNote(pk, p)
    \/ \E pk \in NoteIds, p \in NoteUpdatePayloads : PartialUpdateNote(pk, p)
    \/ \E pk \in NoteIds : DestroyNote(pk)

Spec == Init /\ [][Next]_vars

----------------------------------------------------------------------------
(* The notes resource alone, with every text and two creation dates *)

NextNotes ==
    \/ MedicationRequests
    \/ \E p \in NotePayloads(NoteTexts), now \in NoteClock : CreateNote(p, now)
    \/ \E pk \in NoteIds, p \in NoteUpdatePayloads : UpdateNote(pk, p)
    \/ \E pk \in NoteIds, p \in NoteUpdatePayloads : PartialUpdateNote(pk, p)
    \/ \E pk \in NoteIds : DestroyNote(pk)

SpecNotes == Init /\ [][NextNotes]_vars

----------------------------------------------------------------------------
(* Medication.expected_doses(days), the calculator *)

Raise(message) == <<"raise", message>>
IsRaise(r) == r[1] = "raise"

DaysMustBePositive == "days must be positive"
NoValidSchedule == "medication has no valid dosing schedule"

\* expected_doses with `days = 0` taken as a valid count.
ExpectedDosesFromZeroDays(per_day, days) ==
    IF days >= 0 /\ per_day > 0
    THEN {Value(days * per_day)}
    ELSE (IF days < 0 THEN {Raise(DaysMustBePositive)} ELSE {})
            \cup (IF per_day <= 0 THEN {Raise(NoValidSchedule)} ELSE {})

\* What expected_doses may do: it returns days * prescribed_per_day when both
\* preconditions hold, and otherwise raises the error of a precondition that
\* fails (of either one when both fail).
ExpectedDosesOutcomes(per_day, days) ==
    IF days > 0 /\ per_day > 0
    THEN {Value(days * per_day)}
    ELSE (IF days <= 0 THEN {Raise(DaysMustBePositive)} ELSE {})
            \cup (IF per_day <= 0 THEN {Raise(NoValidSchedule)} ELSE {})

Returned(call, pk, args, result) ==
    [call |-> call, medication |-> pk, args |-> args, result |-> result]

\* medication.expected_doses(days), called directly on a stored Medication.
CallExpectedDoses(pk, days) ==
    /\ pk \in DOMAIN medications
    /\ \E r \in ExpectedDosesOutcomes(medications[pk].prescribed_per_day, days) :
            returned' = Returned("expected_doses", pk, <<days>>, r)
    /\ UNCHANGED <<store, request, response>>

----------------------------------------------------------------------------
(* Medication.adherence_rate() and adherence_rate_over_period(start, end) *)

\* Percentages are kept in hundredths: 66.67 is 6667.
\* round(100 * num / den, 2), for den > 0, ties going to the even hundredth.
Round2(num, den) ==
    LET q == (10000 * num) \div den
        r == (10000 * num) % den
    IN  IF 2 * r < den THEN q
        ELSE IF 2 * r > den THEN q + 1
        ELSE IF q % 2 = 0 THEN q ELSE q + 1

\* The DoseLogs of Medication pk
LogsOf(pk) == {l \in DOMAIN doselogs : doselogs[l].medication = pk}
TakenLogsOf(pk) == {l \in LogsOf(pk) : doselogs[l].was_taken}

\* adherence_rate over the logs of every medication.
AdherenceRateOfAllLogs(pk) ==
    LET total == Cardinality(DOMAIN doselogs)
        taken == Cardinality({l \in DOMAIN doselogs : doselogs[l].was_taken})
    IN  IF total = 0 THEN 0 ELSE Round2(taken, total)

AdherenceRate(pk) ==
    LET total == Cardinality(LogsOf(pk))
        taken == Cardinality(TakenLogsOf(pk))
    IN  IF total = 0 THEN 0 ELSE Round2(taken, total)

\* medication.adherence_rate(), called directly on a stored Medication.
CallAdherenceRate(pk) ==
    /\ pk \in DOMAIN medications
    /\ returned' = Returned("adherence_rate", pk, <<>>, Value(AdherenceRate(pk)))
    /\ UNCHANGED <<store, request, response>>

InvalidRange == "start_date must be before or equal to end_date"
ZeroDivision == "division by zero"

TakenInPeriod(pk, start_date, end_date) ==
    {l \in TakenLogsOf(pk) :
        /\ DateOf(doselogs[l].taken_at) >= start_date
        /\ DateOf(doselogs[l].taken_at) <= end_date}

\* adherence_rate_over_period with the logs in range as its denominator.
AdherenceRateOverLogsInPeriod(pk, start_date, end_date) ==
    IF start_date > end_date THEN {Raise(InvalidRange)}
    ELSE LET logged == Cardinality({l \in LogsOf(pk) :
                            /\ DateOf(doselogs[l].taken_at) >= start_date
                            /\ DateOf(doselogs[l].taken_at) <= end_date})
             taken == Cardinality(TakenInPeriod(pk, start_date, end_date))
         IN  IF logged = 0 THEN {Raise(ZeroDivision)} ELSE {Value(Round2(taken, logged))}

\* What adherence_rate_over_period may do: it raises on a reversed range and
\* otherwise returns round(100 * taken / expected, 2); with an expected count
\* of 0 the quotient has no value, and the call fails on the division or on
\* the invalid schedule.
AdherenceRateOverPeriod(pk, start_date, end_date) ==
    IF start_date > end_date THEN {Raise(InvalidRange)}
    ELSE LET days == (end_date - start_date) + 1
             expected == days * medications[pk].prescribed_per_day
             taken == Cardinality(TakenInPeriod(pk, start_date, end_date))
         IN  IF expected = 0 THEN {Raise(ZeroDivision), Raise(NoValidSchedule)}
             ELSE {Value(Round2(taken, expected))}

\* medication.adherence_rate_over_period(start_date, end_date), called directly.
CallAdherenceRateOverPeriod(pk, start_date, end_date) ==
    /\ pk \in DOMAIN medications
    /\ \E r \in AdherenceRateOverPeriod(pk, start_date, end_date) :
            returned' = Returned("adherence_rate_over_period", pk, <<start_date, end_date>>, r)
    /\ UNCHANGED <<store, request, response>>

RECURSIVE Repeat(_, _)
Repeat(row, n) == IF n = 0 THEN <<>> ELSE <<row>> \o Repeat(row, n - 1)

\* The logs of Medication 1: taken[d] doses taken at the end of day d, then
\* `missed` doses missed at the start of day 1; and one dose of Medication 2
\* taken on day 1.
RECURSIVE TakenRows(_, _)
TakenRows(taken, d) ==
    IF d > MaxDay THEN <<>>
    ELSE Repeat([medication |-> 1, taken_at |-> d * TicksPerDay + TicksPerDay - 1,
                 was_taken |-> TRUE], taken[d]) \o TakenRows(taken, d + 1)

LoggedDoses(taken, missed) ==
    TakenRows(taken, 0)
        \o Repeat([medication |-> 1, taken_at |-> TicksPerDay, was_taken |-> FALSE], missed)
        \o <<[medication |-> 2, taken_at |-> TicksPerDay, was_taken |-> TRUE]>>

MissedCounts == 0 .. 2

\* Two stored Medications and the logged doses the calculator reads.
InitCalculator ==
    /\ \E per_day \in 0 .. MaxPerDay :
            medications = [i \in {1, 2} |->
                [name |-> "Aspirin", dosage_mg |-> 100,
                 prescribed_per_day |-> IF i = 1 THEN per_day ELSE 1]]
    /\ \E taken \in [Days -> 0 .. MaxTakenPerDay], missed \in MissedCounts :
            /\ doselogs = LoggedDoses(taken, missed)
            /\ nextDoseLogId = Len(doselogs) + 1
    /\ notes = EmptyTable
    /\ nextMedicationId = 3
    /\ nextNoteId = 1
    /\ request = NoData
    /\ response = Response("none", 0, NoData)
    /\ returned = NoData

CallDays == -1 .. 3

NextCalculator ==
    \/ \E days \in CallDays : CallExpectedDoses(1, days)
    \/ CallAdherenceRate(1)
    \/ \E start_date \in Days, end_date \in Days : CallAdherenceRateOverPeriod(1, start_date, end_date)

SpecCalculator == InitCalculator /\ [][NextCalculator]_vars

----------------------------------------------------------------------------
(* int(days_param): a query parameter is a sequence of characters *)

Whitespace == {" "}
Signs == {"+", "-"}
DecimalChars == <<"0", "1", "2", "3", "4", "5", "6", "7", "8", "9">>
DigitChars == {DecimalChars[i] : i \in 1 .. 10}
DigitValue(c) == (CHOOSE i \in 1 .. 10 : DecimalChars[i] = c) - 1

RECURSIVE LStrip(_)
LStrip(s) == IF s # <<>> /\ Head(s) \in Whitespace THEN LStrip(Tail(s)) ELSE s

RECURSIVE RStrip(_)
RStrip(s) ==
    IF s # <<>> /\ s[Len(s)] \in Whitespace THEN RStrip(SubSeq(s, 1, Len(s) - 1)) ELSE s

\* str.strip() on a sequence of characters
StripChars(s) == RStrip(LStrip(s))

Unsigned(s) == IF s # <<>> /\ Head(s) \in Signs THEN Tail(s) ELSE s

\* Decimal digits, with single underscores allowed between digits.
IsDigitString(s) ==
    /\ s # <<>>
    /\ s[1] \in DigitChars
    /\ s[Len(s)] \in DigitChars
    /\ \A i \in 1 .. Len(s) : s[i] \in DigitChars \cup {"_"}
    /\ \A i \in 1 .. (Len(s) - 1) : ~(s[i] = "_" /\ s[i + 1] = "_")

\* int(s) does not raise ValueError
IntParses(s) == IsDigitString(Unsigned(StripChars(s)))

RECURSIVE DigitsValue(_, _)
DigitsValue(s, acc) ==
    IF s = <<>> THEN acc
    ELSE IF Head(s) = "_" THEN DigitsValue(Tail(s), acc)
    ELSE DigitsValue(Tail(s), 10 * acc + DigitValue(Head(s)))

\* int(s), for a string that parses
IntValue(s) ==
    LET t == StripChars(s)
        n == DigitsValue(Unsigned(t), 0)
    IN  IF Head(t) = "-" THEN 0 - n ELSE n

----------------------------------------------------------------------------
(* The query endpoints of one Medication *)

ErrorBody(message) == [error |-> message]

MissingDays == "Missing required parameter: days"
DaysNotInteger == "days must be a valid integer"
DaysNotPositive == "days must be a positive integer"

\* The answer of the endpoint once `days` is an integer the endpoint lets
\* through: the calculator's value, or its error as a 400.
ExpectedDosesAnswer(pk, days, r) ==
    IF IsRaise(r)
    THEN Response("expected_doses", HTTP_400_BAD_REQUEST, ErrorBody(r[2]))
    ELSE Response("expected_doses", HTTP_200_OK,
                  [medication_id |-> pk, days |-> days, expected_doses |-> Val(r)])

\* The endpoint with `days < 0` as its range check.
ExpectedDosesZeroLetThrough(pk, days_param) ==
    /\ IF pk \notin DOMAIN medications
       THEN response' = Response("expected_doses", HTTP_404_NOT_FOUND, NoData)
       ELSE IF days_param = Absent \/ days_param = Value(<<>>)
       THEN response' = Response("expected_doses", HTTP_400_BAD_REQUEST, ErrorBody(MissingDays))
       ELSE IF ~IntParses(Val(days_param))
       THEN response' = Response("expected_doses", HTTP_400_BAD_REQUEST, ErrorBody(DaysNotInteger))
       ELSE IF IntValue(Val(days_param)) < 0
       THEN response' = Response("expected_doses", HTTP_400_BAD_REQUEST, ErrorBody(DaysNotPositive))
       ELSE \E r \in ExpectedDosesOutcomes(medications[pk].prescribed_per_day,
                                           IntValue(Val(days_param))) :
                response' = ExpectedDosesAnswer(pk, IntValue(Val(days_param)), r)
    /\ request' = Request(pk, [days |-> days_param])
    /\ UNCHANGED <<store, returned>>

\* The endpoint with the parameter validated before the Medication is
\* looked up.
ExpectedDosesValidatedFirst(pk, days_param) ==
    /\ IF days_param = Absent \/ days_param = Value(<<>>)
       THEN response' = Response("expected_doses", HTTP_400_BAD_REQUEST, ErrorBody(MissingDays))
       ELSE IF ~IntParses(Val(days_param))
       THEN response' = Response("expected_doses", HTTP_400_BAD_REQUEST, ErrorBody(DaysNotInteger))
       ELSE IF IntValue(Val(days_param)) <= 0
       THEN response' = Response("expected_doses", HTTP_400_BAD_REQUEST, ErrorBody(DaysNotPositive))
       ELSE IF pk \notin DOMAIN medications
       THEN response' = Response("expected_doses", HTTP_404_NOT_FOUND, NoData)
       ELSE \E r \in ExpectedDosesOutcomes(medications[pk].prescribed_per_day,
                                           IntValue(Val(days_param))) :
                response' = ExpectedDosesAnswer(pk, IntValue(Val(days_param)), r)
    /\ request' = Request(pk, [days |-> days_param])
    /\ UNCHANGED <<store, returned>>

\* GET /api/medications/<pk>/expected-doses/?days=<days_param>
ExpectedDoses(pk, days_param) ==
    /\ IF pk \notin DOMAIN medications
       THEN response' = Response("expected_doses", HTTP_404_NOT_FOUND, NoData)
       ELSE IF days_param = Absent \/ days_param = Value(<<>>)
       THEN response' = Response("expected_doses", HTTP_400_BAD_REQUEST, ErrorBody(MissingDays))
       ELSE IF ~IntParses(Val(days_param))
       THEN response' = Response("expected_doses", HTTP_400_BAD_REQUEST, ErrorBody(DaysNotInteger))
       ELSE IF IntValue(Val(days_param)) <= 0
       THEN response' = Response("expected_doses", HTTP_400_BAD_REQUEST, ErrorBody(DaysNotPositive))
       ELSE \E r \in ExpectedDosesOutcomes(medications[pk].prescribed_per_day,
                                           IntValue(Val(days_param))) :
                response' = ExpectedDosesAnswer(pk, IntValue(Val(days_param)), r)
    /\ request' = Request(pk, [days |-> days_param])
    /\ UNCHANGED <<store, returned>>

\* Payloads of the external drug-information lookup: a dict of strings, or
\* something that is no dict.
Str(x) == <<"str", x>>
Dict(items) == [type |-> "dict", items |-> items]
NotADict == [type |-> "str", items |-> [text |-> Str("unavailable")]]
IsDict(data) == data.type = "dict"
HasKey(data, key) == IsDict(data) /\ key \in DOMAIN data.items
\* bool(data.get(key))
GetIsTruthy(data, key) == HasKey(data, key) /\ data.items[key] # Str("")

\* GET /api/medications/<pk>/info/ ; `data` is what fetch_external_info returns.
GetExternalInfo(pk, data) ==
    /\ IF pk \notin DOMAIN medications
       THEN response' = Response("get_external_info", HTTP_404_NOT_FOUND, NoData)
       ELSE IF IsDict(data) /\ GetIsTruthy(data, "error")
       THEN response' = Response("get_external_info", HTTP_502_BAD_GATEWAY, data)
       ELSE response' = Response("get_external_info", HTTP_200_OK, data)
    /\ request' = Request(pk, NoData)
    /\ UNCHANGED <<store, returned>>

ExternalPayloads ==
    {Dict([info |-> Str("Mocked info")]),
     Dict([error |-> Str("API unavailable")]),
     Dict([error |-> Str("")]),
     Dict([info |-> Str("Mocked info"), error |-> Str("API unavailable")]),
     NotADict}

ParamChars == {" ", "-", "0", "3", "a"}
DaysParams ==
    {Absent} \cup {Value(s) : s \in UNION {[1 .. n -> ParamChars] : n \in 0 .. MaxParamLen}}
\* One stored Medication, with any schedule.
InitMedication ==
    /\ \E per_day \in 0 .. MaxPerDay :
            medications = [i \in {1} |->
                [name |-> "Aspirin", dosage_mg |-> 100, prescribed_per_day |-> per_day]]
    /\ doselogs = EmptyTable
    /\ notes = EmptyTable
    /\ nextMedicationId = 2
    /\ nextDoseLogId = 1
    /\ nextNoteId = 1
    /\ request = NoData
    /\ response = Response("none", 0, NoData)
    /\ returned = NoData

NextMedication ==
    \/ \E pk \in {1, 2}, days_param \in DaysParams : ExpectedDoses(pk, days_param)
    \/ \E pk \in {1, 2}, data \in ExternalPayloads : GetExternalInfo(pk, data)

SpecMedication == InitMedication /\ [][NextMedication]_vars

----------------------------------------------------------------------------
(* date.fromisoformat(date_string) and the calendar *)

IsLeap(y) == (y % 4 = 0 /\ y % 100 # 0) \/ y % 400 = 0
DaysInMonth(y, m) ==
    IF m = 2 THEN (IF IsLeap(y) THEN 29 ELSE 28)
    ELSE IF m \in {4, 6, 9, 11} THEN 30 ELSE 31

RECURSIVE DaysBeforeMonth(_, _)
DaysBeforeMonth(y, m) == IF m = 1 THEN 0 ELSE DaysBeforeMonth(y, m - 1) + DaysInMonth(y, m - 1)

\* date(y, m, d).toordinal()
Ordinal(y, m, d) ==
    365 * (y - 1) + ((y - 1) \div 4) - ((y - 1) \div 100) + ((y - 1) \div 400)
        + DaysBeforeMonth(y, m) + d

\* Calendar day 0 of the model is 2024-02-28.
DayIndex(y, m, d) == Ordinal(y, m, d) - Ordinal(2024, 2, 28)

IsDigits(s) == \A i \in 1 .. Len(s) : s[i] \in DigitChars

\* YYYY-MM-DD
IsExtendedFormat(s) ==
    /\ Len(s) = 10
    /\ s[5] = "-" /\ s[8] = "-"
    /\ IsDigits(SubSeq(s, 1, 4)) /\ IsDigits(SubSeq(s, 6, 7)) /\ IsDigits(SubSeq(s, 9, 10))

\* YYYYMMDD
IsBasicFormat(s) == Len(s) = 8 /\ IsDigits(s)

DateFields(s) ==
    IF Len(s) = 10
    THEN <<DigitsValue(SubSeq(s, 1, 4), 0), DigitsValue(SubSeq(s, 6, 7), 0),
           DigitsValue(SubSeq(s, 9, 10), 0)>>
    ELSE <<DigitsValue(SubSeq(s, 1, 4), 0), DigitsValue(SubSeq(s, 5, 6), 0),
           DigitsValue(SubSeq(s, 7, 8), 0)>>

IsCalendarDate(f) ==
    /\ f[1] >= 1
    /\ f[2] \in 1 .. 12
    /\ f[3] >= 1 /\ f[3] <= DaysInMonth(f[1], f[2])

\* date.fromisoformat(s) does not raise ValueError.  `basic_format` tells
\* whether the interpreter also reads YYYYMMDD (CPython from 3.11 on does,
\* earlier ones read YYYY-MM-DD only).
DateParses(s, basic_format) ==
    /\ IsExtendedFormat(s) \/ (basic_format /\ IsBasicFormat(s))
    /\ IsCalendarDate(DateFields(s))

\* date.fromisoformat(s), as the index of its calendar day
DateValue(s) == LET f == DateFields(s) IN DayIndex(f[1], f[2], f[3])

\* The decimal digit of n at 10^k
DigitAt(n, k) == DecimalChars[((n \div (10 ^ k)) % 10) + 1]

\* date.isoformat()
IsoFormat(y, m, d) ==
    <<DigitAt(y, 3), DigitAt(y, 2), DigitAt(y, 1), DigitAt(y, 0), "-",
      DigitAt(m, 1), DigitAt(m, 0), "-", DigitAt(d, 1), DigitAt(d, 0)>>

----------------------------------------------------------------------------
(* GET /api/logs/filter/?start=<start>&end=<end> *)

FilterRequired == "Both 'start' and 'end' parameters are required"
FilterInvalidFormat == "Invalid date format. Use YYYY-MM-DD"
FilterStartAfterEnd == "start_date must be before or equal to end_date"

\* not query_params.get(name)
ParamMissing(f) == f = Absent \/ f = Value(<<>>)

\* DoseLogSerializer's representation of DoseLog l
DoseLogData(l) ==
    [id |-> l, medication |-> doselogs[l].medication,
     medication_name |-> medications[doselogs[l].medication].name,
     taken_at |-> doselogs[l].taken_at, was_taken |-> doselogs[l].was_taken]

\* The filter with the end of the range compared to the instant taken_at
\* instead of its date: logs later on the last day are left out.
LogsUpToMidnight(start_date, end_date) ==
    {l \in DOMAIN doselogs :
        /\ DateOf(doselogs[l].taken_at) >= start_date
        /\ doselogs[l].taken_at <= end_date * TicksPerDay}

\* The DoseLogs with start_date <= taken_at__date <= end_date
LogsInRange(start_date, end_date) ==
    {l \in DOMAIN doselogs :
        /\ DateOf(doselogs[l].taken_at) >= start_date
        /\ DateOf(doselogs[l].taken_at) <= end_date}

\* order_by("taken_at"): the orders of the rows the database may return.
OrderedByTakenAt(rows) ==
    {seq \in [1 .. Cardinality(rows) -> rows] :
        /\ \A i, j \in DOMAIN seq : i # j => seq[i] # seq[j]
        /\ \A i, j \in DOMAIN seq :
                i < j => doselogs[seq[i]].taken_at <= doselogs[seq[j]].taken_at}

FilterByDate(start, end, basic_format) ==
    /\ IF ParamMissing(start) \/ ParamMissing(end)
       THEN response' = Response("filter_by_date", HTTP_400_BAD_REQUEST, ErrorBody(FilterRequired))
       ELSE IF ~DateParses(Val(start), basic_format) \/ ~DateParses(Val(end), basic_format)
       THEN response' = Response("filter_by_date", HTTP_400_BAD_REQUEST,
                                 ErrorBody(FilterInvalidFormat))
       ELSE IF DateValue(Val(start)) > DateValue(Val(end))
       THEN response' = Response("filter_by_date", HTTP_400_BAD_REQUEST,
                                 ErrorBody(FilterStartAfterEnd))
       ELSE \E seq \in OrderedByTakenAt(LogsInRange(DateValue(Val(start)), DateValue(Val(end)))) :
                response' = Response("filter_by_date", HTTP_200_OK,
                                     [i \in DOMAIN seq |-> DoseLogData(seq[i])])
    /\ request' = Request(NoData, [start |-> start, end |-> end])
    /\ UNCHANGED <<store, returned>>

DateStrings ==
    {IsoFormat(2024, 2, 27), IsoFormat(2024, 2, 28), IsoFormat(2024, 2, 29),
     IsoFormat(2024, 3, 1), IsoFormat(2024, 2, 30), IsoFormat(2023, 2, 29),
     IsoFormat(2024, 13, 1), IsoFormat(0, 1, 1),
     <<"2", "0", "2", "4", "0", "2", "2", "9">>,
     <<"2", "0", "2", "4", "-", "2", "-", "2", "8">>,
     <<"A", "A", "A", "A">>}

DateParams == {Absent, Value(<<>>)} \cup {Value(s) : s \in DateStrings}

\* Two stored Medications with one DoseLog each: the first logged at any
\* instant, the second at the start of day 1.
InitDoseLogs ==
    /\ medications = [i \in {1, 2} |->
            [name |-> IF i = 1 THEN "Aspirin" ELSE "Paracetamol", dosage_mg |-> 100,
             prescribed_per_day |-> 2]]
    /\ \E t1 \in Times :
            doselogs = <<[medication |-> 1, taken_at |-> t1, was_taken |-> TRUE],
                         [medication |-> 2, taken_at |-> TicksPerDay, was_taken |-> FALSE]>>
    /\ nextDoseLogId = 3
    /\ notes = EmptyTable
    /\ nextMedicationId = 3
    /\ nextNoteId = 1
    /\ request = NoData
    /\ response = Response("none", 0, NoData)
    /\ returned = NoData

NextDoseLogs ==
    \E start \in DateParams, end \in DateParams, basic_format \in BOOLEAN :
        FilterByDate(start, end, basic_format)

SpecDoseLogs == InitDoseLogs /\ [][NextDoseLogs]_vars

----------------------------------------------------------------------------
(* Claims on the store *)

\* C1: every stored DoseLog and every stored Note references a Medication
\* that is stored, whatever creates, updates and deletes came before.
C1_ReferentialIntegrity ==
    /\ \A l \in DOMAIN doselogs : doselogs[l].medication \in DOMAIN medications
    /\ \A n \in DOMAIN notes : notes[n].medication \in DOMAIN medications

\* A DoseLog and a Note are stored after some Medication has been deleted.
C1_Witness ==
    /\ doselogs # EmptyTable
    /\ notes # EmptyTable
    /\ Cardinality(DOMAIN medications) < nextMedicationId - 1

\* C2: deleting a stored Medication M answers 204 and removes M and exactly
\* the DoseLogs and Notes that reference M, every other row staying as it
\* was; deleting an unknown id answers 404 and changes nothing.
C2_DeleteCascades ==
    [][response'.op = "DestroyMedication" =>
       \A pk \in MedicationIds :
        DestroyMedication(pk) =>
            IF pk \in DOMAIN medications
            THEN /\ response'.status = HTTP_204_NO_CONTENT
                 /\ DOMAIN medications' = DOMAIN medications \ {pk}
                 /\ \A m \in DOMAIN medications' : medications'[m] = medications[m]
                 /\ DOMAIN doselogs' = {l \in DOMAIN doselogs : doselogs[l].medication # pk}
                 /\ \A l \in DOMAIN doselogs' : doselogs'[l] = doselogs[l]
                 /\ DOMAIN notes' = {n \in DOMAIN notes : notes[n].medication # pk}
                 /\ \A n \in DOMAIN notes' : notes'[n] = notes[n]
            ELSE /\ response'.status = HTTP_404_NOT_FOUND
                 /\ store' = store]_vars

\* A delete has removed a Medication with its DoseLog while another
\* Medication and its Note stay.
C2_Witness ==
    /\ response = Response("DestroyMedication", HTTP_204_NO_CONTENT, NoData)
    /\ nextDoseLogId > 1 /\ doselogs = EmptyTable
    /\ notes # EmptyTable /\ medications # EmptyTable

\* C3: a PUT or PATCH on a Note answers 405 and leaves the notes as they
\* were, and as long as a Note is stored its text and date stay the same
\* under every request.
C3_NotesImmutable ==
    [][/\ response'.op \in {"UpdateNote", "PartialUpdateNote"} =>
          \A pk \in NoteIds, p \in NoteUpdatePayloads :
            (UpdateNote(pk, p) \/ PartialUpdateNote(pk, p)) =>
                /\ response'.status = HTTP_405_METHOD_NOT_ALLOWED
                /\ notes' = notes
       /\ \A n \in DOMAIN notes \cap DOMAIN notes' :
            /\ notes'[n].text = notes[n].text
            /\ notes'[n].date = notes[n].date]_vars

\* A PUT or PATCH was refused while a Note is stored.
C3_Witness ==
    /\ response.op \in {"UpdateNote", "PartialUpdateNote"}
    /\ response.status = HTTP_405_METHOD_NOT_ALLOWED
    /\ notes # EmptyTable

\* C4: creating a Note for a stored Medication answers 201 exactly when the
\* text, trimmed, is non-empty and at most 1000 characters long, and then
\* stores the trimmed text; otherwise it answers 400 and adds no Note.
C4_NoteTextValidation ==
    [][response'.op = "CreateNote" =>
       \A p \in NotePayloads(NoteTexts) :
        \* the clock reading of the request: the date of the Note it stored
        LET now == IF nextNoteId \in DOMAIN notes' THEN notes'[nextNoteId].date ELSE 0
        IN
        (/\ IsValue(p.medication_id)
         /\ Val(p.medication_id) \in DOMAIN medications
         /\ CreateNote(p, now)) =>
            IF /\ IsValue(p.text)
               /\ Val(p.text).body > 0
               /\ Val(p.text).body <= MaxNoteLen
            THEN /\ response'.status = HTTP_201_CREATED
                 /\ DOMAIN notes' = DOMAIN notes \cup {nextNoteId}
                 /\ nextNoteId \notin DOMAIN notes
                 /\ notes'[nextNoteId].text = Text(0, Val(p.text).body, 0)
                 /\ notes'[nextNoteId].medication = Val(p.medication_id)
            ELSE /\ response'.status = HTTP_400_BAD_REQUEST
                 /\ notes' = notes]_vars

\* A Note of exactly 1000 characters has been created.
C4_Witness ==
    /\ response = Response("CreateNote", HTTP_201_CREATED, NoData)
    /\ \E n \in DOMAIN notes : notes[n].text = Text(0, MaxNoteLen, 0)

----------------------------------------------------------------------------
(* Claims on the queries of one Medication *)

PerDay(pk) == medications[pk].prescribed_per_day

\* C5 as stated: expected_doses raises the argument error for every
\* days <= 0, raises the schedule error for every prescribed_per_day = 0
\* whatever days is, and otherwise returns days * prescribed_per_day.
C5_AsStated ==
    [][\A pk \in DOMAIN medications, days \in CallDays :
        (/\ returned'.call = "expected_doses"
         /\ returned'.args = <<days>>
         /\ CallExpectedDoses(pk, days)) =>
            /\ days <= 0 => returned'.result = Raise(DaysMustBePositive)
            /\ PerDay(pk) = 0 => returned'.result = Raise(NoValidSchedule)
            /\ (days > 0 /\ PerDay(pk) > 0) => returned'.result = Value(days * PerDay(pk))]_vars

\* C5, amended: expected_doses raises the argument error when days <= 0 and
\* the schedule is valid, the schedule error when prescribed_per_day = 0 and
\* days > 0, one of the two when both preconditions fail, and otherwise
\* returns days * prescribed_per_day.
C5_ExpectedDoses ==
    [][\A pk \in DOMAIN medications, days \in CallDays :
        (/\ returned'.call = "expected_doses"
         /\ returned'.args = <<days>>
         /\ CallExpectedDoses(pk, days)) =>
            /\ (days <= 0 /\ PerDay(pk) > 0) => returned'.result = Raise(DaysMustBePositive)
            /\ (days > 0 /\ PerDay(pk) = 0) => returned'.result = Raise(NoValidSchedule)
            /\ (days <= 0 /\ PerDay(pk) = 0) =>
                    returned'.result \in {Raise(DaysMustBePositive), Raise(NoValidSchedule)}
            /\ (days > 0 /\ PerDay(pk) > 0) => returned'.result = Value(days * PerDay(pk))]_vars

\* 3 days at 2 per day have given 6.
C5_Witness ==
    /\ returned # NoData
    /\ returned = Returned("expected_doses", 1, <<3>>, Value(6))
    /\ PerDay(1) = 2

\* C6 as stated: for a stored Medication the endpoint answers 'missing' only
\* when days is absent and 'valid integer' whenever days does not parse, an
\* empty days included.
C6_AsStated ==
    (response.op = "expected_doses" /\ request.pk \in DOMAIN medications) =>
        LET pk == request.pk
            d == request.query.days
        IN  IF d = Absent
            THEN response = Response("expected_doses", HTTP_400_BAD_REQUEST, ErrorBody(MissingDays))
            ELSE IF ~IntParses(Val(d))
            THEN response = Response("expected_doses", HTTP_400_BAD_REQUEST, ErrorBody(DaysNotInteger))
            ELSE IF IntValue(Val(d)) <= 0
            THEN response = Response("expected_doses", HTTP_400_BAD_REQUEST, ErrorBody(DaysNotPositive))
            ELSE IF PerDay(pk) = 0
            THEN response = Response("expected_doses", HTTP_400_BAD_REQUEST, ErrorBody(NoValidSchedule))
            ELSE response = Response("expected_doses", HTTP_200_OK,
                    [medication_id |-> pk, days |-> IntValue(Val(d)),
                     expected_doses |-> IntValue(Val(d)) * PerDay(pk)])

\* C6, amended: for a stored Medication the endpoint answers 200 with
\* {medication_id, days, expected_doses = days * prescribed_per_day} exactly
\* when days parses as an integer > 0 and the calculator does not fail, and
\* otherwise 400: 'missing' when days is absent or empty, 'valid integer'
\* when a non-empty days does not parse, 'positive integer' when it parses
\* to <= 0, and the calculator's message when the calculator raises.
C6_ExpectedDosesEndpoint ==
    (response.op = "expected_doses" /\ request.pk \in DOMAIN medications) =>
        LET pk == request.pk
            d == request.query.days
        IN  IF d = Absent \/ d = Value(<<>>)
            THEN response = Response("expected_doses", HTTP_400_BAD_REQUEST, ErrorBody(MissingDays))
            ELSE IF ~IntParses(Val(d))
            THEN response = Response("expected_doses", HTTP_400_BAD_REQUEST, ErrorBody(DaysNotInteger))
            ELSE IF IntValue(Val(d)) <= 0
            THEN response = Response("expected_doses", HTTP_400_BAD_REQUEST, ErrorBody(DaysNotPositive))
            ELSE IF PerDay(pk) = 0
            THEN response = Response("expected_doses", HTTP_400_BAD_REQUEST, ErrorBody(NoValidSchedule))
            ELSE response = Response("expected_doses", HTTP_200_OK,
                    [medication_id |-> pk, days |-> IntValue(Val(d)),
                     expected_doses |-> IntValue(Val(d)) * PerDay(pk)])

\* The endpoint has answered 200 with 6 expected doses for 3 days at 2 per day.
C6_Witness ==
    /\ PerDay(1) = 2
    /\ request = Request(1, [days |-> Value(<<" ", "3">>)])
    /\ response = Response("expected_doses", HTTP_200_OK,
                           [medication_id |-> 1, days |-> 3, expected_doses |-> 6])

\* C9: for a stored Medication, /info answers 502 whenever the payload of the
\* external lookup has an `error` key, and otherwise 200 with the payload
\* as it came.
C9_ExternalInfo ==
    [][\A pk \in DOMAIN medications, data \in ExternalPayloads :
        (response'.op = "get_external_info" /\ GetExternalInfo(pk, data)) =>
            IF HasKey(data, "error")
            THEN response' = Response("get_external_info", HTTP_502_BAD_GATEWAY, data)
            ELSE response' = Response("get_external_info", HTTP_200_OK, data)]_vars

----------------------------------------------------------------------------
(* Claims on the adherence calculator *)

\* |value - 100 * num / den| is at most half a hundredth
NearestHundredth(value, num, den) ==
    /\ 2 * (value * den - 10000 * num) <= den
    /\ 2 * (10000 * num - value * den) <= den

\* C7: adherence_rate returns 0.0 for a Medication without DoseLogs and
\* otherwise 100 * taken / total of its own logs rounded to 2 decimals, a
\* value within 0 to 100.
C7_AdherenceRate ==
    [][\A pk \in DOMAIN medications :
        (returned'.call = "adherence_rate" /\ CallAdherenceRate(pk)) =>
            LET mine == {l \in DOMAIN doselogs : doselogs[l].medication = pk}
                total == Cardinality(mine)
                taken == Cardinality({l \in mine : doselogs[l].was_taken})
                value == Val(returned'.result)
            IN  /\ IsValue(returned'.result)
                /\ value >= 0 /\ value <= 10000
                /\ IF total = 0 THEN value = 0 ELSE NearestHundredth(value, taken, total)]_vars

\* One dose taken and one missed have given 50.0, next to a log of another
\* Medication.
C7_Witness ==
    /\ returned # NoData
    /\ returned = Returned("adherence_rate", 1, <<>>, Value(5000))
    /\ Cardinality(LogsOf(1)) = 2
    /\ Cardinality(TakenLogsOf(1)) = 1

TakenWithin(pk, start_date, end_date) ==
    Cardinality({l \in DOMAIN doselogs :
        /\ doselogs[l].medication = pk
        /\ doselogs[l].was_taken
        /\ doselogs[l].taken_at \div TicksPerDay >= start_date
        /\ doselogs[l].taken_at \div TicksPerDay <= end_date})

\* C8 as stated: adherence_rate_over_period raises the range error when
\* end < start, and for every start <= end returns
\* round(100 * taken / expected, 2) with expected = days * prescribed_per_day.
C8_AsStated ==
    [][\A pk \in DOMAIN medications, start_date \in Days, end_date \in Days :
        (/\ returned'.call = "adherence_rate_over_period"
         /\ returned'.args = <<start_date, end_date>>
         /\ CallAdherenceRateOverPeriod(pk, start_date, end_date)) =>
            IF end_date < start_date
            THEN returned'.result = Raise(InvalidRange)
            ELSE /\ IsValue(returned'.result)
                 /\ NearestHundredth(Val(returned'.result),
                                     TakenWithin(pk, start_date, end_date),
                                     (end_date - start_date + 1) * PerDay(pk))]_vars

\* C8, amended: adherence_rate_over_period raises the range error when
\* end < start, and for start <= end and prescribed_per_day > 0 returns
\* round(100 * taken / expected, 2), expected being days * prescribed_per_day
\* and taken the medication's taken logs dated within [start, end].
C8_AdherenceRateOverPeriod ==
    [][\A pk \in DOMAIN medications, start_date \in Days, end_date \in Days :
        (/\ returned'.call = "adherence_rate_over_period"
         /\ returned'.args = <<start_date, end_date>>
         /\ CallAdherenceRateOverPeriod(pk, start_date, end_date)) =>
            IF end_date < start_date
            THEN returned'.result = Raise(InvalidRange)
            ELSE PerDay(pk) > 0 =>
                 /\ IsValue(returned'.result)
                 /\ NearestHundredth(Val(returned'.result),
                                     TakenWithin(pk, start_date, end_date),
                                     (end_date - start_date + 1) * PerDay(pk))]_vars

\* 2 per day over 3 days with 4 doses taken and 2 missed have given 66.67.
C8_Witness ==
    /\ returned # NoData
    /\ returned = Returned("adherence_rate_over_period", 1, <<0, 2>>, Value(6667))
    /\ PerDay(1) = 2
    /\ Cardinality(TakenLogsOf(1)) = 4
    /\ Cardinality(LogsOf(1)) = 6

----------------------------------------------------------------------------
(* Claims on the dose-log date filter *)

\* s is a calendar date written YYYY-MM-DD
IsYearMonthDay(s) ==
    /\ Len(s) = 10
    /\ \A i \in {1, 2, 3, 4, 6, 7, 9, 10} : s[i] \in DigitChars
    /\ s[5] = "-" /\ s[8] = "-"
    /\ LET y == DigitsValue(SubSeq(s, 1, 4), 0)
           m == DigitsValue(SubSeq(s, 6, 7), 0)
           d == DigitsValue(SubSeq(s, 9, 10), 0)
       IN  /\ y >= 1 /\ m >= 1 /\ m <= 12 /\ d >= 1
           /\ d <= (IF m = 2 THEN (IF IsLeap(y) THEN 29 ELSE 28)
                    ELSE IF m \in {4, 6, 9, 11} THEN 30 ELSE 31)

\* C10: the date filter answers 400 exactly when start or end is missing, or
\* one of them is no YYYY-MM-DD calendar date, or start > end, and 200 in
\* every other case, start = end included.
C10_FilterStatus ==
    response.op = "filter_by_date" =>
        LET start == request.query.start
            end == request.query.end
            bad == \/ start = Absent \/ end = Absent
                   \/ ~IsYearMonthDay(Val(start)) \/ ~IsYearMonthDay(Val(end))
                   \/ DateValue(Val(start)) > DateValue(Val(end))
        IN  /\ bad => response.status = HTTP_400_BAD_REQUEST
            /\ ~bad => response.status = HTTP_200_OK

----------------------------------------------------------------------------
(* Claims on the result of the dose-log date filter *)

\* DoseLog l is dated within [start_date, end_date]
DatedWithin(l, start_date, end_date) ==
    /\ doselogs[l].taken_at \div TicksPerDay >= start_date
    /\ doselogs[l].taken_at \div TicksPerDay <= end_date

\* C11: a successful date filter with range [start, end] lists every stored
\* DoseLog, of any medication, whose taken_at date lies in [start, end], no
\* other DoseLog, each exactly once, in non-decreasing order of taken_at.
C11_FilterResult ==
    (response.op = "filter_by_date" /\ response.status = HTTP_200_OK) =>
        LET start_date == DateValue(Val(request.query.start))
            end_date == DateValue(Val(request.query.end))
            data == response.data
        IN  /\ \A l \in DOMAIN doselogs :
                    DatedWithin(l, start_date, end_date) =>
                        Cardinality({i \in DOMAIN data : data[i].id = l}) = 1
            /\ \A i \in DOMAIN data :
                    /\ data[i].id \in DOMAIN doselogs
                    /\ DatedWithin(data[i].id, start_date, end_date)
                    /\ data[i].medication = doselogs[data[i].id].medication
                    /\ data[i].taken_at = doselogs[data[i].id].taken_at
                    /\ data[i].was_taken = doselogs[data[i].id].was_taken
            /\ \A i, j \in DOMAIN data : i < j => data[i].taken_at <= data[j].taken_at

\* A filter over two days has listed the logs of two medications, the later
\* log taken late on the last day of the range, and left no log out of order.
C11_Witness ==
    /\ response.op = "filter_by_date"
    /\ response.status = HTTP_200_OK
    /\ request.query.start = Value(IsoFormat(2024, 2, 28))
    /\ request.query.end = Value(IsoFormat(2024, 2, 29))
    /\ Len(response.data) = 2
    /\ response.data[1].id = 2 /\ response.data[2].id = 1
    /\ response.data[1].taken_at < response.data[2].taken_at

----------------------------------------------------------------------------
(* NoteViewSet.get_queryset: the notes resource under ?medication= *)

\* get_queryset with a non-integer id leaving the queryset as it is.
NotesQuerysetKeptOnBadId(medication_param) ==
    IF ParamMissing(medication_param) THEN DOMAIN notes
    ELSE IF IntParses(Val(medication_param))
    THEN {n \in DOMAIN notes : notes[n].medication = IntValue(Val(medication_param))}
    ELSE DOMAIN notes

\* The Notes of get_queryset(): every Note when `medication` is absent or
\* empty, the Notes of Medication int(medication) when it parses, and none
\* when it does not.
NotesQueryset(medication_param) ==
    IF ParamMissing(medication_param) THEN DOMAIN notes
    ELSE IF IntParses(Val(medication_param))
    THEN {n \in DOMAIN notes : notes[n].medication = IntValue(Val(medication_param))}
    ELSE {}

\* NoteSerializer's representation of Note n (medication_id is write-only)
NoteData(n) ==
    [id |-> n, medication_name |-> medications[notes[n].medication].name,
     text |-> notes[n].text, date |-> notes[n].date]

\* The rows of a queryset, each once, in the order the database returns them.
Listed(rows) ==
    {seq \in [1 .. Cardinality(rows) -> rows] :
        \A i, j \in DOMAIN seq : i # j => seq[i] # seq[j]}

\* GET /api/notes/?medication=<medication_param>
ListNotes(medication_param) ==
    /\ \E seq \in Listed(NotesQueryset(medication_param)) :
            response' = Response("ListNotes", HTTP_200_OK,
                                 [i \in DOMAIN seq |-> NoteData(seq[i])])
    /\ request' = Request(NoData, [medication |-> medication_param])
    /\ UNCHANGED <<store, returned>>

\* GET /api/notes/<pk>/?medication=<medication_param> : get_object() looks
\* the Note up in get_queryset().
RetrieveNote(pk, medication_param) ==
    /\ IF pk \in NotesQueryset(medication_param)
       THEN response' = Response("RetrieveNote", HTTP_200_OK, NoteData(pk))
       ELSE response' = Response("RetrieveNote", HTTP_404_NOT_FOUND, NoData)
    /\ request' = Request(pk, [medication |-> medication_param])
    /\ UNCHANGED <<store, returned>>

\* A destroy that looks the Note up among all Notes.
DestroyNoteUnscoped(pk, medication_param) ==
    /\ IF pk \in DOMAIN notes
       THEN /\ notes' = Without(notes, pk)
            /\ response' = Response("DestroyNoteScoped", HTTP_204_NO_CONTENT, NoData)
       ELSE /\ response' = Response("DestroyNoteScoped", HTTP_404_NOT_FOUND, NoData)
            /\ UNCHANGED notes
    /\ request' = Request(pk, [medication |-> medication_param])
    /\ UNCHANGED <<medications, doselogs, nextMedicationId, nextDoseLogId, nextNoteId, returned>>

\* DELETE /api/notes/<pk>/?medication=<medication_param>
DestroyNoteScoped(pk, medication_param) ==
    /\ IF pk \in NotesQueryset(medication_param)
       THEN /\ notes' = Without(notes, pk)
            /\ response' = Response("DestroyNoteScoped", HTTP_204_NO_CONTENT, NoData)
       ELSE /\ response' = Response("DestroyNoteScoped", HTTP_404_NOT_FOUND, NoData)
            /\ UNCHANGED notes
    /\ request' = Request(pk, [medication |-> medication_param])
    /\ UNCHANGED <<medications, doselogs, nextMedicationId, nextDoseLogId, nextNoteId, returned>>

MedicationParams ==
    {Absent, Value(<<>>), Value(<<"1">>), Value(<<"2">>), Value(<<"3">>),
     Value(<<" ", "1">>), Value(<<"+", "2">>), Value(<<"0", "1">>), Value(<<"-", "1">>),
     Value(<<"1", "2">>), Value(<<"a">>), Value(<<"1", "a">>), Value(<<"1", ".", "0">>),
     Value(<<" ">>)}

\* Two stored Medications and three Notes: the first on Medication 1, the
\* second on either, the third on Medication 2.
InitNoteQueries ==
    /\ medications = [i \in {1, 2} |->
            [name |-> IF i = 1 THEN "Test Medication" ELSE "Another Medication",
             dosage_mg |-> 50, prescribed_per_day |-> 2]]
    /\ \E m \in {1, 2} :
            notes = <<[medication |-> 1, text |-> Text(0, 2, 0), date |-> 0],
                      [medication |-> m, text |-> Text(0, 3, 0), date |-> 0],
                      [medication |-> 2, text |-> Text(0, 1, 0), date |-> TicksPerDay]>>
    /\ nextNoteId = 4
    /\ doselogs = EmptyTable
    /\ nextMedicationId = 3
    /\ nextDoseLogId = 1
    /\ request = NoData
    /\ response = Response("none", 0, NoData)
    /\ returned = NoData

NextNoteQueries ==
    \/ \E medication_param \in MedicationParams : ListNotes(medication_param)
    \/ \E pk \in 1 .. 4, medication_param \in MedicationParams : RetrieveNote(pk, medication_param)
    \/ \E pk \in 1 .. 4, medication_param \in MedicationParams :
            DestroyNoteScoped(pk, medication_param)

SpecNoteQueries == InitNoteQueries /\ [][NextNoteQueries]_vars

----------------------------------------------------------------------------
(* Claims on the notes resource under ?medication= *)

\* The ids a list response names
ListedIds(data) == {data[i].id : i \in DOMAIN data}

\* data lists exactly the Notes `ids`, each once and as it is stored
ListsExactly(data, ids) ==
    /\ ListedIds(data) = ids
    /\ Len(data) = Cardinality(ids)
    /\ \A i \in DOMAIN data :
            /\ data[i].text = notes[data[i].id].text
            /\ data[i].date = notes[data[i].id].date
            /\ data[i].medication_name = medications[notes[data[i].id].medication].name

NotesOn(m) == {n \in DOMAIN notes : notes[n].medication = m}

----------------------------------------------------------------------------
(* The dose-log resource and the Medication read beside it *)

\* A Medication read that reports the adherence the Medication had when it
\* was stored, before any dose was logged.
RetrieveMedicationAsStored(pk) ==
    /\ IF pk \in DOMAIN medications
       THEN response' = Response("RetrieveMedication", HTTP_200_OK,
                [id |-> pk, name |-> medications[pk].name,
                 dosage_mg |-> medications[pk].dosage_mg,
                 prescribed_per_day |-> medications[pk].prescribed_per_day,
                 adherence |-> 0])
       ELSE response' = Response("RetrieveMedication", HTTP_404_NOT_FOUND, NoData)
    /\ UNCHANGED <<store, request, returned>>

\* MedicationSerializer's representation of Medication pk; `adherence` is
\* get_adherence(obj), the adherence_rate() of the Medication as it is read.
MedicationData(pk) ==
    [id |-> pk, name |-> medications[pk].name, dosage_mg |-> medications[pk].dosage_mg,
     prescribed_per_day |-> medications[pk].prescribed_per_day,
     adherence |-> AdherenceRate(pk)]

\* GET /api/medications/<pk>/
RetrieveMedication(pk) ==
    /\ IF pk \in DOMAIN medications
       THEN response' = Response("RetrieveMedication", HTTP_200_OK, MedicationData(pk))
       ELSE response' = Response("RetrieveMedication", HTTP_404_NOT_FOUND, NoData)
    /\ UNCHANGED <<store, request, returned>>

\* The instants doses are logged at: the first and the last of the run, the
\* last one later than every reading of the clock.
LogTimes == {0, (MaxDay + 1) * TicksPerDay - 1}

\* Two stored Medications and no DoseLog yet.
InitLogWrites ==
    /\ medications = [i \in {1, 2} |->
            [name |-> IF i = 1 THEN "Paracetamol" ELSE "Ibuprofen", dosage_mg |-> 500,
             prescribed_per_day |-> 2]]
    /\ doselogs = EmptyTable
    /\ notes = EmptyTable
    /\ nextMedicationId = 3
    /\ nextDoseLogId = 1
    /\ nextNoteId = 1
    /\ request = NoData
    /\ response = Response("none", 0, NoData)
    /\ returned = NoData

LogIds == 1 .. (MaxLogWrites + 1)

LogPayload(medication, taken_at, was_taken) ==
    [medication |-> medication, taken_at |-> taken_at, was_taken |-> was_taken]

\* The payloads of the tests of the dose-log resource: doses of either
\* Medication taken or missed at either instant, an unknown Medication, no
\* Medication, no taken_at, and a taken_at that is no date.
LogPayloads ==
    {LogPayload(Value(1), Value(t), TRUE) : t \in LogTimes}
        \cup {LogPayload(Value(1), Value(t), FALSE) : t \in LogTimes}
        \cup {LogPayload(Value(2), Value(t), TRUE) : t \in LogTimes}
        \cup {LogPayload(Value(3), Value(0), TRUE), LogPayload(Absent, Value(0), TRUE),
              LogPayload(Value(1), Absent, TRUE), LogPayload(Value(1), Invalid, TRUE),
              LogPayload(Value(3), Invalid, TRUE)}

NextLogWrites ==
    \/ \E p \in LogPayloads : CreateDoseLog(p)
    \/ \E pk \in LogIds, p \in LogPayloads : UpdateDoseLog(pk, p)
    \/ \E pk \in LogIds : DestroyDoseLog(pk)
    \/ \E pk \in MedicationIds : RetrieveMedication(pk)

SpecLogWrites == InitLogWrites /\ [][NextLogWrites]_vars

----------------------------------------------------------------------------
(* Claims on the writes of the dose-log resource *)

\* The payload names no stored Medication, or has no taken_at, or one
\* that does not parse
RefusedLog(p) ==
    \/ p.medication = Absent
    \/ Val(p.medication) \notin DOMAIN medications
    \/ p.taken_at = Absent
    \/ p.taken_at = Invalid

\* C13: creating a DoseLog, or fully updating a stored one, with a medication
\* reference that does not exist or with a missing or unparseable taken_at
\* answers 400 and leaves the stored DoseLogs as they were; a payload that
\* names a stored Medication is accepted with any taken_at, a future one
\* included, and stored as given.
C13_DoseLogWrites ==
    [][/\ response'.op = "CreateDoseLog" =>
            \A p \in LogPayloads :
                CreateDoseLog(p) =>
                    IF RefusedLog(p)
                    THEN /\ response'.status = HTTP_400_BAD_REQUEST
                         /\ doselogs' = doselogs
                    ELSE /\ response'.status = HTTP_201_CREATED
                         /\ DOMAIN doselogs' = DOMAIN doselogs \cup {nextDoseLogId}
                         /\ nextDoseLogId \notin DOMAIN doselogs
                         /\ doselogs'[nextDoseLogId].taken_at = Val(p.taken_at)
                         /\ \A l \in DOMAIN doselogs : doselogs'[l] = doselogs[l]
       /\ response'.op = "UpdateDoseLog" =>
            \A pk \in DOMAIN doselogs, p \in LogPayloads :
                UpdateDoseLog(pk, p) =>
                    IF RefusedLog(p)
                    THEN /\ response'.status = HTTP_400_BAD_REQUEST
                         /\ doselogs' = doselogs
                    ELSE /\ response'.status = HTTP_200_OK
                         /\ doselogs'[pk].taken_at = Val(p.taken_at)]_vars

\* A stored log has kept its fields through a refused update, and a log
\* with a future taken_at is stored.
C13_Witness ==
    /\ response = Response("UpdateDoseLog", HTTP_400_BAD_REQUEST, NoData)
    /\ 1 \in DOMAIN doselogs
    /\ \E l \in DOMAIN doselogs : doselogs[l].taken_at = (MaxDay + 1) * TicksPerDay - 1

----------------------------------------------------------------------------
(* Claims on the adherence a Medication is read with *)

\* The DoseLogs stored for Medication pk in the state the read ends in
StoredLogsOf(pk) == {l \in DOMAIN doselogs' : doselogs'[l].medication = pk}

\* C16: the `adherence` a Medication is read with is adherence_rate over the
\* DoseLogs stored for that Medication at the time of the read, whatever
\* DoseLog creates, updates and deletes came before, and the read changes no
\* stored Medication, DoseLog or Note.
C16_AdherenceOnRead ==
    [][response'.op = "RetrieveMedication" =>
        \A pk \in DOMAIN medications :
            RetrieveMedication(pk) =>
                LET total == Cardinality(StoredLogsOf(pk))
                    taken == Cardinality({l \in StoredLogsOf(pk) : doselogs'[l].was_taken})
                    adherence == response'.data.adherence
                IN  /\ response'.status = HTTP_200_OK
                    /\ IF total = 0 THEN adherence = 0
                       ELSE NearestHundredth(adherence, taken, total)
                    /\ medications' = medications
                    /\ doselogs' = doselogs
                    /\ notes' = notes]_vars

\* Medication 1 has been read with 50.0 after one of its doses was taken and
\* one missed.
C16_Witness ==
    /\ response.op = "RetrieveMedication"
    /\ response.status = HTTP_200_OK
    /\ response.data.id = 1
    /\ response.data.adherence = 5000
    /\ Cardinality(LogsOf(1)) = 2

----------------------------------------------------------------------------
(* Claims on the order of the checks of the expected-doses endpoint *)

\* C15: the expected-doses endpoint answers 404 for an unknown Medication
\* whatever `days` is, then 'missing', then 'valid integer', then 'positive
\* integer', and only then asks the calculator: days <= 0 on a Medication
\* with prescribed_per_day = 0 is answered 'positive integer', the schedule
\* error is answered only for days > 0, and the calculator's own
\* days-must-be-positive error is never the answer.
C15_ExpectedDosesOrder ==
    response.op = "expected_doses" =>
        LET pk == request.pk
            d == request.query.days
            answer(status, message) == Response("expected_doses", status, ErrorBody(message))
        IN  /\ pk \notin DOMAIN medications =>
                    response = Response("expected_doses", HTTP_404_NOT_FOUND, NoData)
            /\ (pk \in DOMAIN medications /\ (d = Absent \/ d = Value(<<>>))) =>
                    response = answer(HTTP_400_BAD_REQUEST, MissingDays)
            /\ (pk \in DOMAIN medications /\ IsValue(d) /\ Val(d) # <<>>
                    /\ ~IntParses(Val(d))) =>
                    response = answer(HTTP_400_BAD_REQUEST, DaysNotInteger)
            /\ (pk \in DOMAIN medications /\ IsValue(d) /\ IntParses(Val(d))
                    /\ IntValue(Val(d)) <= 0) =>
                    response = answer(HTTP_400_BAD_REQUEST, DaysNotPositive)
            /\ response = answer(HTTP_400_BAD_REQUEST, NoValidSchedule) =>
                    /\ pk \in DOMAIN medications
                    /\ IsValue(d) /\ IntParses(Val(d)) /\ IntValue(Val(d)) > 0
                    /\ PerDay(pk) = 0
            /\ response # answer(HTTP_400_BAD_REQUEST, DaysMustBePositive)

\* A request with days = -3 on a Medication with prescribed_per_day = 0 has
\* been answered 'positive integer'.
C15_Witness ==
    /\ PerDay(1) = 0
    /\ request = Request(1, [days |-> Value(<<"-", "3">>)])
    /\ response = Response("expected_doses", HTTP_400_BAD_REQUEST, ErrorBody(DaysNotPositive))

----------------------------------------------------------------------------
(* Claims on item operations of the notes resource under ?medication= *)

\* ?medication=X leaves Note n out: X is non-empty and is no integer, or an
\* integer other than the Note's medication
ScopedOut(n, x) ==
    /\ x # Absent /\ x # Value(<<>>)
    /\ (IntParses(Val(x)) => IntValue(Val(x)) # notes[n].medication)

\* C17: GET or DELETE of a stored Note with ?medication=X answers 404 and
\* keeps the Note when X is a non-integer or an integer other than the
\* Note's medication; with X the Note's medication, or absent or empty, the
\* GET answers 200 with the Note and the DELETE answers 204 and removes just
\* that Note, as they do without the parameter.
C17_ScopedItemOperations ==
    [][/\ response'.op = "RetrieveNote" =>
            \A pk \in DOMAIN notes :
                RetrieveNote(pk, request'.query.medication) =>
                    /\ notes' = notes
                    /\ IF ScopedOut(pk, request'.query.medication)
                       THEN response'.status = HTTP_404_NOT_FOUND
                       ELSE /\ response'.status = HTTP_200_OK
                            /\ response'.data.id = pk
                            /\ response'.data.text = notes[pk].text
       /\ response'.op = "DestroyNoteScoped" =>
            \A pk \in DOMAIN notes :
                DestroyNoteScoped(pk, request'.query.medication) =>
                    IF ScopedOut(pk, request'.query.medication)
                    THEN /\ response'.status = HTTP_404_NOT_FOUND
                         /\ notes' = notes
                    ELSE /\ response'.status = HTTP_204_NO_CONTENT
                         /\ pk \notin DOMAIN notes'
                         /\ \A n \in DOMAIN notes \ {pk} :
                                n \in DOMAIN notes' /\ notes'[n] = notes[n]
                         /\ DOMAIN notes' \subseteq DOMAIN notes]_vars

\* A DELETE of Note 3, a Note of Medication 2, under ?medication=1 has been
\* answered 404 and the Note is still stored.
C17_Witness ==
    /\ response = Response("DestroyNoteScoped", HTTP_404_NOT_FOUND, NoData)
    /\ request = Request(3, [medication |-> Value(<<"1">>)])
    /\ 3 \in DOMAIN notes
    /\ notes[3].medication = 2

----------------------------------------------------------------------------
(* A write of a dependent racing the delete of its Medication.  The two     *)
(* requests in flight are kept in `request`, each with its position, and    *)
(* their answers in `response`.  Every step is one statement, or one        *)
(* transaction, of the database.                                            *)

IntegrityError == "FOREIGN KEY constraint failed"

\* The answer to a request that ends in an error no handler catches
HTTP_500_INTERNAL_SERVER_ERROR == 500
Unhandled(op, error) == Response(op, HTTP_500_INTERNAL_SERVER_ERROR, ErrorBody(error))

\* A database that commits without checking its foreign keys.
CommitUnchecked(meds, logs, nts) == TRUE

\* The foreign keys of DoseLog and Note, checked when a transaction commits:
\* every row references a stored Medication.
CommitAllowed(meds, logs, nts) ==
    /\ \A l \in DOMAIN logs : logs[l].medication \in DOMAIN meds
    /\ \A n \in DOMAIN nts : nts[n].medication \in DOMAIN meds

Writing == request.write
Deleting == request.delete

Answer(who, r) == [response EXCEPT ![who] = r]
Moved(who, pc) == [request EXCEPT ![who].pc = pc]

\* The writing request validates its payload: an update first looks its
\* DoseLog up, then the serializer looks the referenced Medication up.
ValidateWrite ==
    /\ Writing.pc = "validate"
    /\ IF Writing.op = "UpdateDoseLog" /\ Writing.pk \notin DOMAIN doselogs
       THEN /\ response' = Answer("write", Response(Writing.op, HTTP_404_NOT_FOUND, NoData))
            /\ request' = Moved("write", "done")
       ELSE IF Writing.medication \in DOMAIN medications
       THEN /\ request' = Moved("write", "save")
            /\ UNCHANGED response
       ELSE /\ response' = Answer("write", Response(Writing.op, HTTP_400_BAD_REQUEST, NoData))
            /\ request' = Moved("write", "done")
    /\ UNCHANGED <<store, returned>>

\* The row the writing request saves: a new DoseLog or Note, or the DoseLog
\* it updates (written again if it is gone by now).
SavedLogs ==
    IF Writing.op = "CreateDoseLog"
    THEN With(doselogs, nextDoseLogId,
              [medication |-> Writing.medication, taken_at |-> 0, was_taken |-> TRUE])
    ELSE IF Writing.op = "UpdateDoseLog"
    THEN With(doselogs, Writing.pk,
              [medication |-> Writing.medication, taken_at |-> 0, was_taken |-> TRUE])
    ELSE doselogs

SavedNotes ==
    IF Writing.op = "CreateNote"
    THEN With(notes, nextNoteId,
              [medication |-> Writing.medication, text |-> Text(0, 1, 0), date |-> 0])
    ELSE notes

\* The writing request saves its row; the database refuses the row when its
\* Medication is gone.
SaveWrite ==
    /\ Writing.pc = "save"
    /\ request' = Moved("write", "done")
    /\ IF CommitAllowed(medications, SavedLogs, SavedNotes)
       THEN /\ doselogs' = SavedLogs
            /\ notes' = SavedNotes
            /\ nextDoseLogId' = IF Writing.op = "CreateDoseLog"
                                THEN nextDoseLogId + 1 ELSE nextDoseLogId
            /\ nextNoteId' = IF Writing.op = "CreateNote" THEN nextNoteId + 1 ELSE nextNoteId
            /\ response' = Answer("write",
                    Response(Writing.op,
                             IF Writing.op = "UpdateDoseLog" THEN HTTP_200_OK
                             ELSE HTTP_201_CREATED, NoData))
       ELSE /\ response' = Answer("write", Unhandled(Writing.op, IntegrityError))
            /\ UNCHANGED <<doselogs, notes, nextDoseLogId, nextNoteId>>
    /\ UNCHANGED <<medications, nextMedicationId, returned>>

\* The deleting request looks its Medication up.
LookupMedication ==
    /\ Deleting.pc = "lookup"
    /\ IF Deleting.pk \in DOMAIN medications
       THEN /\ request' = Moved("delete", "collect")
            /\ UNCHANGED response
       ELSE /\ response' = Answer("delete",
                    Response("DestroyMedication", HTTP_404_NOT_FOUND, NoData))
            /\ request' = Moved("delete", "done")
    /\ UNCHANGED <<store, returned>>

\* The deleting request collects the rows that go with its Medication: by
\* their ids as they are now, or, when the rows can be deleted by a query of
\* their own, not before the delete itself.
CollectDependents ==
    /\ Deleting.pc = "collect"
    /\ request' = [request EXCEPT
            !.delete.pc = "delete",
            !.delete.logs = IF Deleting.by_query THEN {}
                            ELSE {l \in DOMAIN doselogs : doselogs[l].medication = Deleting.pk},
            !.delete.notes = IF Deleting.by_query THEN {}
                             ELSE {n \in DOMAIN notes : notes[n].medication = Deleting.pk}]
    /\ UNCHANGED <<store, response, returned>>

\* The deleting request deletes the collected rows and the Medication in one
\* transaction, which the database rolls back when a row still references
\* the Medication at commit.
DeleteCollected ==
    /\ Deleting.pc = "delete"
    /\ request' = Moved("delete", "done")
    /\ LET gone_logs == IF Deleting.by_query
                        THEN {l \in DOMAIN doselogs : doselogs[l].medication = Deleting.pk}
                        ELSE Deleting.logs
           gone_notes == IF Deleting.by_query
                         THEN {n \in DOMAIN notes : notes[n].medication = Deleting.pk}
                         ELSE Deleting.notes
           logs_left == [l \in DOMAIN doselogs \ gone_logs |-> doselogs[l]]
           notes_left == [n \in DOMAIN notes \ gone_notes |-> notes[n]]
           medications_left == Without(medications, Deleting.pk)
       IN  IF CommitAllowed(medications_left, logs_left, notes_left)
           THEN /\ medications' = medications_left
                /\ doselogs' = logs_left
                /\ notes' = notes_left
                /\ response' = Answer("delete",
                        Response("DestroyMedication", HTTP_204_NO_CONTENT, NoData))
           ELSE /\ response' = Answer("delete", Unhandled("DestroyMedication", IntegrityError))
                /\ UNCHANGED <<medications, doselogs, notes>>
    /\ UNCHANGED <<nextMedicationId, nextDoseLogId, nextNoteId, returned>>

WriteOps == {"CreateDoseLog", "UpdateDoseLog", "CreateNote"}

\* Two stored Medications, a DoseLog of either and a Note of the first; one
\* request about to write a dependent of a Medication and one about to
\* delete a Medication.
InitRace ==
    /\ medications = [i \in {1, 2} |->
            [name |-> "Aspirin", dosage_mg |-> 100, prescribed_per_day |-> 2]]
    /\ \E m \in {1, 2} :
            doselogs = <<[medication |-> m, taken_at |-> 0, was_taken |-> FALSE]>>
    /\ notes = <<[medication |-> 1, text |-> Text(0, 1, 0), date |-> 0]>>
    /\ nextMedicationId = 3
    /\ nextDoseLogId = 2
    /\ nextNoteId = 2
    /\ \E op \in WriteOps, m \in {1, 2}, pk \in {1, 2}, by_query \in BOOLEAN :
            request = [write |-> [pc |-> "validate", op |-> op, pk |-> 1, medication |-> m],
                       delete |-> [pc |-> "lookup", pk |-> pk, by_query |-> by_query,
                                   logs |-> {}, notes |-> {}]]
    /\ response = [write |-> NoData, delete |-> NoData]
    /\ returned = NoData

NextRace ==
    \/ ValidateWrite
    \/ SaveWrite
    \/ LookupMedication
    \/ CollectDependents
    \/ DeleteCollected

SpecRace == InitRace /\ [][NextRace]_vars

----------------------------------------------------------------------------
(* Claims on the race of a write with the delete of its Medication *)

BothDone == request.write.pc = "done" /\ request.delete.pc = "done"

\* C14: when a request that creates or re-points a DoseLog or Note for
\* Medication M has run concurrently with a request that deletes M, in any
\* interleaving of their steps, then once both have finished every stored
\* DoseLog and Note references a stored Medication, and if M was deleted no
\* DoseLog or Note references M.
C14_RaceKeepsReferences ==
    BothDone =>
        /\ \A l \in DOMAIN doselogs : doselogs[l].medication \in DOMAIN medications
        /\ \A n \in DOMAIN notes : notes[n].medication \in DOMAIN medications
        /\ response.delete.status = HTTP_204_NO_CONTENT =>
                /\ request.delete.pk \notin DOMAIN medications
                /\ \A l \in DOMAIN doselogs : doselogs[l].medication # request.delete.pk
                /\ \A n \in DOMAIN notes : notes[n].medication # request.delete.pk

\* A DoseLog for Medication 1 passed the reference check, Medication 1 was
\* deleted, and the database then refused the log.
C14_Witness ==
    /\ BothDone
    /\ request.write.op = "CreateDoseLog"
    /\ request.write.medication = 1
    /\ request.delete.pk = 1
    /\ response.delete.status = HTTP_204_NO_CONTENT
    /\ response.write.status = HTTP_500_INTERNAL_SERVER_ERROR

====
